---- MODULE Spec2Model ----
(***************************************************************************)
(* Model of the deadline-bounded task supervisor of src/main.py:           *)
(* google_chat_webhook -> try_quick_response -> run_agent, and the         *)
(* detached continue_processing_in_background loop that sends waiting      *)
(* messages through the Google Chat API (the Notifier).                    *)
(*                                                                         *)
(* asyncio is cooperative: the code between two awaits is one atomic step. *)
(* Every action below is the code from one await to the next.              *)
(***************************************************************************)
EXTENDS Integers, Sequences, FiniteSets, TLC

(***************************************************************************)
(* Bounds of the model.                                                    *)
(***************************************************************************)
\* Longest progress script explored (the program ships one of length 3).
MaxScriptLen == 4
\* Number of request slots.
NumReqs == 2
\* Number of add_to_history calls explored on the history store alone.
MaxCalls == 5

Reqs == 1..NumReqs

(***************************************************************************)
(* Texts.  A text is a sequence of string tokens, so that "contains the    *)
(* original error text" is a property of the text.                         *)
(***************************************************************************)
\* Stand-ins for the display strings of a progress script, in order.
Letters == << <<"A">>, <<"B">>, <<"C">>, <<"D">>, <<"E">>, <<"F">> >>

\* A progress script of length n.
Script(n) == SubSeq(Letters, 1, n)

\* The WAITING_MESSAGES list the program ships: three entries.
ShippedScript == Script(3)

\* ERROR_MESSAGE, the generic technical-error text.
ERROR_MESSAGE == <<"ERROR_MESSAGE">>

\* str(e) of the exception the agent call raises.
ErrText == "boom"

\* response.content[-1].text of a successful agent call.
AgentText == <<"R">>

NoText == <<>>
NoTask == 0

\* message.text of a request.
UserText == <<"Q">>

(***************************************************************************)
(* Senders and conversations.  An e-mail address is the sequence of its    *)
(* characters (a run of letters is one token), so that the sanitising of   *)
(* get_history and save_history acts on it.                                *)
(***************************************************************************)
ALLOWED_DOMAIN == <<"test", ".", "com">>

\* An address that passes user_email.endswith("@" + ALLOWED_DOMAIN).
Email(local) == local \o <<"@">> \o ALLOWED_DOMAIN

\* The senders explored.
Emails == {Email(<<"a", ".", "b">>), Email(<<"a", "_", "b">>), Email(<<"c">>)}

\* space.name of the conversations explored.
Spaces == {"spaces/A", "spaces/B"}

NoEmail == <<>>
NoSpace == ""

(***************************************************************************)
(* The history store: one JSON file per sanitised e-mail address.          *)
(***************************************************************************)
MAX_MESSAGES == 4

\* str.replace on one character: "@" -> "_at_", then "." -> "_".
SafeChar(c) == IF c = "@" THEN "_at_" ELSE IF c = "." THEN "_" ELSE c

\* safe_name = user_email.replace("@", "_at_").replace(".", "_")
safe_name(email) == [i \in 1..Len(email) |-> SafeChar(email[i])]

\* The files the explored senders are stored in.
FileNames == {safe_name(e) : e \in Emails}

\* history[-n:] of Python, for n > 0.
LastN(history, n) ==
    SubSeq(history, IF Len(history) > n THEN Len(history) - n + 1 ELSE 1,
           Len(history))

\* {"role": role, "content": content, "timestamp": datetime.now()}; the
\* timestamp is the logical time of the call.
HistoryEntry(role, content, now) ==
    [role |-> role, content |-> content, timestamp |-> now]

\* get_history on the store fs: the content of the user's file, [] while
\* the file does not exist.
get_history(fs, email) == fs[safe_name(email)]

\* save_history: the file of the user holds history[-MAX_MESSAGES:].
save_history(fs, email, history) ==
    [fs EXCEPT ![safe_name(email)] = LastN(history, MAX_MESSAGES)]

\* add_to_history: read, append, save.
add_to_history(fs, email, role, content, now) ==
    save_history(fs, email,
                 Append(get_history(fs, email),
                        HistoryEntry(role, content, now)))

VARIABLES
    WAITING_MESSAGES,  \* the progress script (module constant of the program)
    inbox,             \* requests not yet received by the webhook
    wpc,               \* position of google_chat_webhook per request
    task,              \* status of agent_task per request
    result,            \* value run_agent returned (NoText while none)
    raised,            \* the agent call raised inside run_agent
    must_cancel,       \* agent_task.cancel() reached the task while it ran
    quick,             \* value try_quick_response returned
    response,          \* text of the synchronous webhook response
    bpc,               \* position of continue_processing_in_background
    message_index,     \* the continuation's cursor into WAITING_MESSAGES
    log,               \* per request: what happened, in order
    user_email,        \* sender's e-mail of the request (webhook local)
    space_name,        \* conversation target of the request (webhook local)
    answered,          \* the agent call of the request returned a response
    files,             \* chat_history/: file name -> stored history
    calls,             \* every add_to_history call so far, in order
    chat               \* messages the Notifier posted: space, request, text

\* What a request carries, what run_agent keeps on disk.
request_side == <<user_email, space_name>>
agent_side == <<answered, files, calls>>

vars == <<WAITING_MESSAGES, inbox, wpc, task, result, raised, must_cancel,
          quick, response, bpc, message_index, log, request_side, agent_side,
          chat>>

(***************************************************************************)
(* Helpers translated from the code.                                       *)
(***************************************************************************)
\* WAITING_MESSAGES[k] with Python's 0-based index.
Entry(k) == WAITING_MESSAGES[k + 1]

\* len(WAITING_MESSAGES)
N == Len(WAITING_MESSAGES)

\* agent_task.done(): finished with a value, with an exception, or cancelled.
Done(r) == task[r] \in {"Completed", "Failed", "Cancelled"}

\* agent_task.cancelled()
Cancelled(r) == task[r] = "Cancelled"

\* run_agent's except branch: return f"Error: {str(e)}"
ErrorResult(e) == <<"Error: ", e>>

Event(ev, text) == [ev |-> ev, text |-> text]

Logged(r, ev, text) == Append(log[r], Event(ev, text))

NoReturn == [delivered |-> FALSE, text |-> NoText, task |-> NoTask]

\* The server after start-up: no request received, no task, nothing
\* posted.
Started ==
    /\ wpc = [r \in Reqs |-> "idle"]
    /\ task = [r \in Reqs |-> "none"]
    /\ result = [r \in Reqs |-> NoText]
    /\ raised = [r \in Reqs |-> FALSE]
    /\ must_cancel = [r \in Reqs |-> FALSE]
    /\ quick = [r \in Reqs |-> NoReturn]
    /\ response = [r \in Reqs |-> NoText]
    /\ bpc = [r \in Reqs |-> "none"]
    /\ message_index = [r \in Reqs |-> 0]
    /\ log = [r \in Reqs |-> <<>>]
    /\ user_email = [r \in Reqs |-> NoEmail]
    /\ space_name = [r \in Reqs |-> NoSpace]
    /\ answered = [r \in Reqs |-> FALSE]
    /\ chat = {}

\* An empty chat_history directory.
EmptyStore ==
    /\ files = [f \in FileNames |-> <<>>]
    /\ calls = <<>>

\* The script is fixed at start-up (lengths 2..MaxScriptLen, the shipped one
\* among them); one request is on its way to the webhook.
Init ==
    /\ WAITING_MESSAGES \in {Script(n) : n \in 2..MaxScriptLen}
    /\ inbox = {1}
    /\ Started
    /\ EmptyStore

(***************************************************************************)
(* google_chat_webhook receives a validated message and enters             *)
(* try_quick_response: the agent task is created and the handler awaits    *)
(* wait_for(shield(agent_task), TIMEOUT_SECONDS).                          *)
(***************************************************************************)
Webhook(r, email, space) ==
    /\ r \in inbox
    /\ inbox' = inbox \ {r}
    /\ user_email' = [user_email EXCEPT ![r] = email]
    /\ space_name' = [space_name EXCEPT ![r] = space]
    /\ wpc' = [wpc EXCEPT ![r] = "quick_wait"]
    /\ task' = [task EXCEPT ![r] = "Running"]
    /\ UNCHANGED <<agent_side, chat>>
    /\ UNCHANGED <<WAITING_MESSAGES, result, raised, must_cancel, quick,
                   response, bpc, message_index, log>>

(***************************************************************************)
(* run_agent, the body of agent_task.  It suspends in the agent call and,  *)
(* once the response is stored, in the exit of `async with fast.run()`;    *)
(* what lies between the two (response_text, both add_to_history calls)    *)
(* has no await and is one step.                                           *)
(***************************************************************************)
\* One add_to_history call as recorded in `calls`: for whom, what, and the
\* request whose run_agent made it (0: a call from outside any request).
Call(email, role, content, r) ==
    [user_email |-> email, role |-> role, content |-> content, of |-> r]

\* Variant: the assistant response is stored before the user message.
RunAgentAppendsAssistantFirst(message, response_text) ==
    << <<"assistant", response_text>>, <<"user", message>> >>

\* The add_to_history calls of run_agent after the agent call returned, as
\* (role, content), in program order.
RunAgentAppends(message, response_text) ==
    << <<"user", message>>, <<"assistant", response_text>> >>

\* The store after add_to_history was called for the (role, content) pairs
\* of adds, in order, the first of them at time now.
RECURSIVE AddAll(_, _, _, _)
AddAll(fs, email, adds, now) ==
    IF adds = <<>> THEN fs
    ELSE AddAll(add_to_history(fs, email, adds[1][1], adds[1][2], now),
                email, Tail(adds), now + 1)

\* The agent call returns a response: response_text is taken from it and
\* the user message and the response are added to the history of the
\* sender; run_agent then suspends leaving fast.run().
AgentAnswers(r) ==
    LET adds == RunAgentAppends(UserText, AgentText)
    IN  /\ task[r] = "Running"
        /\ ~answered[r]
        /\ answered' = [answered EXCEPT ![r] = TRUE]
        /\ files' = AddAll(files, user_email[r], adds, Len(calls) + 1)
        /\ calls' = calls \o [i \in 1..Len(adds) |->
                                Call(user_email[r], adds[i][1], adds[i][2], r)]
        /\ UNCHANGED <<request_side, chat>>
        /\ UNCHANGED <<WAITING_MESSAGES, inbox, wpc, task, result, raised,
                       must_cancel, quick, response, bpc, message_index, log>>

\* The value run_agent returns: the response text, or, from the
\* except Exception branch, "Error: " followed by the exception's text.
RunAgentValue(failed) == IF failed THEN ErrorResult(ErrText) ELSE AgentText

\* Variant: run_agent without its `except Exception`; the exception of the
\* agent call ends the task.
RunAgentStatusPropagates(failed) == IF failed THEN "Failed" ELSE "Completed"

\* How the task ends when the agent call returned or raised an Exception:
\* the except branch turns the exception into a returned string, so the
\* task always ends with a value.
RunAgentStatus(failed) == "Completed"

\* run_agent returns: after the response was stored (failed = FALSE), or
\* because the agent call or the exit of fast.run() raised an Exception
\* (failed = TRUE); either way the coroutine returns a string and the task
\* is done with a result.  A cancellation request that the awaited library
\* call swallows leaves this step possible after cancel().
RunAgent(r, failed) ==
    /\ task[r] = "Running"
    /\ failed \/ answered[r]
    /\ task' = [task EXCEPT ![r] = RunAgentStatus(failed)]
    /\ result' = [result EXCEPT ![r] =
                    IF RunAgentStatus(failed) = "Completed"
                    THEN RunAgentValue(failed) ELSE NoText]
    /\ raised' = [raised EXCEPT ![r] = failed]
    /\ log' = [log EXCEPT ![r] =
                 IF RunAgentStatus(failed) = "Completed"
                 THEN Logged(r, "complete", RunAgentValue(failed))
                 ELSE Logged(r, "failed", NoText)]
    /\ UNCHANGED <<request_side, agent_side, chat>>
    /\ UNCHANGED <<WAITING_MESSAGES, inbox, wpc, must_cancel, quick,
                   response, bpc, message_index>>

\* CancelledError is delivered at the await run_agent is suspended in (the
\* agent call, or the exit of fast.run()); it is a BaseException, so
\* `except Exception` does not catch it and the task ends cancelled.
TaskCancelled(r) ==
    /\ task[r] = "Running"
    /\ must_cancel[r]
    /\ task' = [task EXCEPT ![r] = "Cancelled"]
    /\ log' = [log EXCEPT ![r] = Logged(r, "cancelled", NoText)]
    /\ UNCHANGED <<request_side, agent_side, chat>>
    /\ UNCHANGED <<WAITING_MESSAGES, inbox, wpc, result, raised, must_cancel,
                   quick, response, bpc, message_index>>

(***************************************************************************)
(* try_quick_response and the rest of google_chat_webhook.                 *)
(***************************************************************************)
\* Variant: the wait sleeps for the whole timeout instead of racing it
\* against the task.
WaitSleepsFullTimeout(r) == FALSE

\* wait_for(shield(agent_task), TIMEOUT_SECONDS) returns the task's value as
\* soon as the task is done, whatever remains of the timeout; otherwise the
\* timeout elapses and it raises TimeoutError.
WaitResolved(r) == Done(r)

\* Variant: the continuation awaits the task without a timeout.
WaitWithoutTimeout(r) == FALSE

\* The continuation's wait has timeout=TIMEOUT_SECONDS: it can end by
\* TimeoutError as long as the task has not resolved it.
WaitTimesOut(r) == ~WaitResolved(r)

\* Variant: wait_for on the bare task, whose timeout cancels the task.
UnshieldedTimeout(r) == TRUE

\* must_cancel of the task after wait_for(shield(agent_task)) timed out:
\* the timeout cancels the shield's outer future only.
ShieldedTimeout(r) == must_cancel[r]

\* return (True, result, None)
QuickDoneReturn(r) == [delivered |-> TRUE, text |-> result[r], task |-> NoTask]

\* Variant: the timeout branch drops the task instead of handing it over.
QuickTimeoutReturnNoHandle(r) ==
    [delivered |-> FALSE, text |-> Entry(0), task |-> NoTask]

\* return (False, WAITING_MESSAGES[0], agent_task)
QuickTimeoutReturn(r) == [delivered |-> FALSE, text |-> Entry(0), task |-> r]

\* Variant: the background task is created on both branches.
AfterQuickAlwaysSpawns(ret) == "start"

\* google_chat_webhook's branch on `success`: the background task is created
\* only in the else branch.
AfterQuick(ret) == IF ret.delivered THEN "none" ELSE "start"

\* The agent answered within TIMEOUT_SECONDS: try_quick_response returns and
\* the webhook answers with build_response(response_text).  (The texts of
\* the model are shorter than MAX_MESSAGE_LENGTH: build_response and
\* split_message pass them whole.)
\* An exception of the task would be re-raised by the await: only
\* asyncio.TimeoutError is caught, so it would leave try_quick_response and
\* the webhook without a response.
QuickDone(r) ==
    /\ wpc[r] = "quick_wait"
    /\ WaitResolved(r)
    /\ IF task[r] = "Completed"
       THEN /\ bpc' = [bpc EXCEPT ![r] = AfterQuick(QuickDoneReturn(r))]
            /\ quick' = [quick EXCEPT ![r] = QuickDoneReturn(r)]
            /\ response' = [response EXCEPT ![r] = QuickDoneReturn(r).text]
            /\ wpc' = [wpc EXCEPT ![r] = "responded"]
            /\ log' = [log EXCEPT ![r] =
                         log[r]
                         \o (IF AfterQuick(QuickDoneReturn(r)) = "start"
                             THEN << Event("spawn", NoText) >> ELSE <<>>)
                         \o << Event("sync", QuickDoneReturn(r).text) >>]
       ELSE /\ wpc' = [wpc EXCEPT ![r] = "raised"]
            /\ log' = [log EXCEPT ![r] = Logged(r, "raise", NoText)]
            /\ UNCHANGED <<bpc, quick, response>>
    /\ UNCHANGED <<request_side, agent_side, chat>>
    /\ UNCHANGED <<WAITING_MESSAGES, inbox, task, result, raised, must_cancel,
                   message_index>>

\* TIMEOUT_SECONDS elapsed first: try_quick_response returns the first
\* waiting message and the task; the webhook creates the background task and
\* answers with the waiting message.
QuickTimeout(r) ==
    /\ wpc[r] = "quick_wait"
    /\ ~WaitResolved(r)
    /\ must_cancel' = [must_cancel EXCEPT ![r] = ShieldedTimeout(r)]
    /\ quick' = [quick EXCEPT ![r] = QuickTimeoutReturn(r)]
    /\ response' = [response EXCEPT ![r] = QuickTimeoutReturn(r).text]
    /\ bpc' = [bpc EXCEPT ![r] = AfterQuick(QuickTimeoutReturn(r))]
    /\ wpc' = [wpc EXCEPT ![r] = "responded"]
    /\ log' = [log EXCEPT ![r] =
                 log[r] \o << Event("deadline", NoText) >>
                        \o (IF AfterQuick(QuickTimeoutReturn(r)) = "start"
                            THEN << Event("spawn", NoText) >> ELSE <<>>)
                        \o << Event("sync", QuickTimeoutReturn(r).text) >>]
    /\ UNCHANGED <<request_side, agent_side, chat>>
    /\ UNCHANGED <<WAITING_MESSAGES, inbox, task, result, raised,
                   message_index>>

(***************************************************************************)
(* continue_processing_in_background.                                      *)
(***************************************************************************)
\* Variant: the loop condition without the bound on the cursor.
LoopCondNoIndex(r, idx) == ~Done(r)

\* while not agent_task.done() and message_index < len(WAITING_MESSAGES)-1
LoopCond(r, idx) == ~Done(r) /\ idx < N - 1

\* if message_index >= len(WAITING_MESSAGES)-1  (cancel and return)
Exhausted(idx) == idx >= N - 1

\* if agent_task.done() and not agent_task.cancelled()  (after the loop)
PostCond(r) == Done(r) /\ ~Cancelled(r)

\* After the loop, result = agent_task.result() and the send of it; an
\* exception of the task is raised by result() and answered with
\* ERROR_MESSAGE by `except Exception`.
PostTarget(r) == IF task[r] = "Failed" THEN "send_error" ELSE "post_send"

\* Where the wait inside the loop leads when the task resolved it: to the
\* send of the value; an exception of the task goes to the outermost
\* `except Exception`, which sends ERROR_MESSAGE; CancelledError is no
\* Exception and would end the continuation.
WaitValueTarget(r) ==
    IF task[r] = "Failed" THEN "send_error"
    ELSE IF task[r] = "Cancelled" THEN "raised"
    ELSE "send_result"

\* Where the continuation suspends next when it evaluates the loop
\* condition with cursor idx: in the wait, in the post-loop send, or not at
\* all.
AtLoopHead(r, idx) ==
    IF LoopCond(r, idx) THEN "wait"
    ELSE IF PostCond(r) THEN PostTarget(r)
    ELSE "done"

\* Variant: no `return` after agent_task.cancel(); control falls back to the
\* loop head.
AfterWaitingSendNoReturn(r, idx) == AtLoopHead(r, idx)

\* Where the continuation goes after a waiting message was sent and the
\* cursor advanced to idx: cancel and return, or back to the loop head.
AfterWaitingSend(r, idx) ==
    IF Exhausted(idx) THEN "done" ELSE AtLoopHead(r, idx)

\* Variant: no `return` after the result was sent inside the loop; the loop
\* ends because the task is done and the post-loop check sends again.
AfterResultSendNoReturn(ok) == IF ok THEN "post_send" ELSE "send_error"

\* Where the continuation goes once the result was sent inside the loop:
\* `return` after success, the ERROR_MESSAGE send after a failure.
AfterResultSend(ok) == IF ok THEN "done" ELSE "send_error"

\* Variant: the send of a waiting message outside any try; its exception
\* reaches the outermost `except Exception`.
WaitingSendUncaught(ok) == ok

\* The send of a waiting message is wrapped in try/except Exception: the
\* code after it runs whether the send returned or raised.
WaitingSendHandled(ok) == TRUE

\* Variant: the ERROR_MESSAGE send is repeated until it succeeds.
AfterErrorSendRetries(ok) == IF ok THEN "done" ELSE "send_error"

\* After the send of ERROR_MESSAGE the continuation ends: a failure is
\* swallowed by the bare `except:`.
AfterErrorSend(ok) == "done"

\* The events of entering the state pc.
Entering(pc) == IF pc = "wait" THEN << Event("wait", NoText) >> ELSE <<>>

\* The background task starts running: message_index = 1, first evaluation
\* of the loop condition.
BgStart(r) ==
    /\ bpc[r] = "start"
    /\ message_index' = [message_index EXCEPT ![r] = 1]
    /\ bpc' = [bpc EXCEPT ![r] = AtLoopHead(r, 1)]
    /\ log' = [log EXCEPT ![r] =
                 Logged(r, "start", NoText) \o Entering(AtLoopHead(r, 1))]
    /\ UNCHANGED <<request_side, agent_side, chat>>
    /\ UNCHANGED <<WAITING_MESSAGES, inbox, wpc, task, result, raised,
                   must_cancel, quick, response>>

\* The wait ends because the task finished: result = its value, and the
\* continuation starts sending it.
BgWaitDone(r) ==
    /\ bpc[r] = "wait"
    /\ WaitResolved(r)
    /\ bpc' = [bpc EXCEPT ![r] = WaitValueTarget(r)]
    /\ UNCHANGED <<request_side, agent_side, chat>>
    /\ UNCHANGED <<WAITING_MESSAGES, inbox, wpc, task, result, raised,
                   must_cancel, quick, response, message_index, log>>

\* The wait ends because TIMEOUT_SECONDS elapsed: the continuation starts
\* sending WAITING_MESSAGES[message_index].
BgWaitTimeout(r) ==
    /\ bpc[r] = "wait"
    /\ WaitTimesOut(r)
    /\ must_cancel' = [must_cancel EXCEPT ![r] = ShieldedTimeout(r)]
    /\ bpc' = [bpc EXCEPT ![r] = "send_waiting"]
    /\ log' = [log EXCEPT ![r] = Logged(r, "cadence", NoText)]
    /\ UNCHANGED <<request_side, agent_side, chat>>
    /\ UNCHANGED <<WAITING_MESSAGES, inbox, wpc, task, result, raised,
                   quick, response, message_index>>

\* Variant: the handle is kept in one slot shared by all requests.
TaskInSharedSlot(r) == CHOOSE q \in Reqs : task[q] /= "none"

\* The agent_task parameter of the continuation of request r: the handle
\* try_quick_response returned to r's webhook, passed on as pending_task.
agent_task(r) == r

\* What the space of request r shows after send_message_via_api(space_name,
\* text, thread_name) of r's continuation returned (ok) or raised (~ok).
Posted(r, ok, text) ==
    IF ok
    THEN chat \cup {[space |-> space_name[r], of |-> r, text |-> text]}
    ELSE chat

\* send_message_via_api returned (ok) or raised (~ok) for the text.
Sent(ok, text) == Event(IF ok THEN "send" ELSE "sendfail", text)

\* The send of the result inside the loop finished.
BgSendResult(r, ok) ==
    /\ bpc[r] = "send_result"
    /\ bpc' = [bpc EXCEPT ![r] = AfterResultSend(ok)]
    /\ log' = [log EXCEPT ![r] = Append(log[r], Sent(ok, result[r]))]
    /\ chat' = Posted(r, ok, result[r])
    /\ UNCHANGED <<request_side, agent_side>>
    /\ UNCHANGED <<WAITING_MESSAGES, inbox, wpc, task, result, raised,
                   must_cancel, quick, response, message_index>>

\* The send of the result after the loop finished; a failure is caught by
\* `except Exception` and answered with ERROR_MESSAGE.
BgPostSend(r, ok) ==
    /\ bpc[r] = "post_send"
    /\ bpc' = [bpc EXCEPT ![r] = IF ok THEN "done" ELSE "send_error"]
    /\ log' = [log EXCEPT ![r] = Append(log[r], Sent(ok, result[r]))]
    /\ chat' = Posted(r, ok, result[r])
    /\ UNCHANGED <<request_side, agent_side>>
    /\ UNCHANGED <<WAITING_MESSAGES, inbox, wpc, task, result, raised,
                   must_cancel, quick, response, message_index>>

\* The send of ERROR_MESSAGE finished; its failure is only logged.
BgSendError(r, ok) ==
    /\ bpc[r] = "send_error"
    /\ bpc' = [bpc EXCEPT ![r] = AfterErrorSend(ok)]
    /\ log' = [log EXCEPT ![r] = Append(log[r], Sent(ok, ERROR_MESSAGE))]
    /\ chat' = Posted(r, ok, ERROR_MESSAGE)
    /\ UNCHANGED <<request_side, agent_side>>
    /\ UNCHANGED <<WAITING_MESSAGES, inbox, wpc, task, result, raised,
                   must_cancel, quick, response, message_index>>

\* The send of the waiting message finished (a failure is only logged);
\* message_index += 1; at the end of the script agent_task.cancel() and
\* return, otherwise the loop condition is evaluated again.
BgSendWaiting(r, ok) ==
    LET idx == message_index[r] + 1
        nxt == AfterWaitingSend(r, idx)
        cancels == Exhausted(idx)
    IN  /\ bpc[r] = "send_waiting"
        /\ IF WaitingSendHandled(ok)
           THEN /\ message_index' = [message_index EXCEPT ![r] = idx]
                /\ bpc' = [bpc EXCEPT ![r] = nxt]
                /\ must_cancel' = [must_cancel EXCEPT ![agent_task(r)] =
                                     @ \/ (cancels /\ ~Done(agent_task(r)))]
                /\ log' = [log EXCEPT ![r] =
                             log[r]
                             \o << Sent(ok, Entry(message_index[r])) >>
                             \o (IF cancels
                                 THEN << Event("cancel", NoText) >>
                                 ELSE Entering(nxt))]
           ELSE /\ bpc' = [bpc EXCEPT ![r] = "send_error"]
                /\ log' = [log EXCEPT ![r] =
                             Append(log[r],
                                    Sent(ok, Entry(message_index[r])))]
                /\ UNCHANGED <<message_index, must_cancel>>
        /\ chat' = Posted(r, ok, Entry(message_index[r]))
        /\ UNCHANGED <<request_side, agent_side>>
        /\ UNCHANGED <<WAITING_MESSAGES, inbox, wpc, task, result, raised,
                       quick, response>>

(***************************************************************************)
(* The event loop runs any coroutine that can continue.                    *)
(***************************************************************************)
Next ==
    \E r \in Reqs :
        \/ \E email \in Emails, space \in Spaces : Webhook(r, email, space)
        \/ AgentAnswers(r)
        \/ \E failed \in BOOLEAN : RunAgent(r, failed)
        \/ TaskCancelled(r)
        \/ QuickDone(r)
        \/ QuickTimeout(r)
        \/ BgStart(r)
        \/ BgWaitDone(r)
        \/ BgWaitTimeout(r)
        \/ \E ok \in BOOLEAN :
            \/ BgSendResult(r, ok)
            \/ BgPostSend(r, ok)
            \/ BgSendError(r, ok)
            \/ BgSendWaiting(r, ok)

Spec == Init /\ [][Next]_vars

\* The event loop resumes every coroutine whose await has ended: a wait
\* ends by the task or by its timer, a send returns or raises.  Nothing
\* makes the agent call end, nor a cancelled task stop.
Fairness ==
    \A r \in Reqs :
        /\ WF_vars(\E email \in Emails, space \in Spaces :
                      Webhook(r, email, space))
        /\ WF_vars(QuickDone(r) \/ QuickTimeout(r))
        /\ WF_vars(BgStart(r))
        /\ WF_vars(BgWaitDone(r) \/ BgWaitTimeout(r))
        /\ WF_vars(\E ok \in BOOLEAN :
                      \/ BgSendResult(r, ok)
                      \/ BgPostSend(r, ok)
                      \/ BgSendError(r, ok)
                      \/ BgSendWaiting(r, ok))

FairSpec == Spec /\ Fairness

(***************************************************************************)
(* Several requests in flight at once: every request slot holds a message  *)
(* on its way to the webhook, and the program runs the script it ships.    *)
(* The chat_history directory holds one earlier exchange of one sender.    *)
(***************************************************************************)
\* The store an earlier request of the sender left behind (`of` 0: none of
\* the requests in flight).
UsedStore(email) ==
    LET adds == RunAgentAppends(UserText, AgentText)
    IN  /\ files = AddAll([f \in FileNames |-> <<>>], email, adds, 1)
        /\ calls = [i \in 1..Len(adds) |->
                      Call(email, adds[i][1], adds[i][2], 0)]

MultiInit ==
    /\ WAITING_MESSAGES = ShippedScript
    /\ inbox = Reqs
    /\ Started
    /\ UsedStore(Email(<<"a", ".", "b">>))

MultiSpec == MultiInit /\ [][Next]_vars

(***************************************************************************)
(* The history store on its own: add_to_history called for any sender,     *)
(* with any role, any number of times up to MaxCalls.                      *)
(***************************************************************************)
HistInit ==
    /\ WAITING_MESSAGES = ShippedScript
    /\ inbox = {}
    /\ Started
    /\ EmptyStore

\* The content stored with a role.
ContentOf(role) == IF role = "user" THEN UserText ELSE AgentText

\* add_to_history(email, role, content)
AddToHistory(email, role) ==
    /\ Len(calls) < MaxCalls
    /\ files' = add_to_history(files, email, role, ContentOf(role),
                               Len(calls) + 1)
    /\ calls' = Append(calls, Call(email, role, ContentOf(role), 0))
    /\ UNCHANGED <<request_side, answered, chat>>
    /\ UNCHANGED <<WAITING_MESSAGES, inbox, wpc, task, result, raised,
                   must_cancel, quick, response, bpc, message_index, log>>

HistNext ==
    \E email \in Emails, role \in {"user", "assistant"} :
        AddToHistory(email, role)

HistSpec == HistInit /\ [][HistNext]_vars

(***************************************************************************)
(* Reading the log of a request.                                           *)
(***************************************************************************)
Idx(r) == 1..Len(log[r])

\* Positions of the events of the kinds evs.
At(r, evs) == {i \in Idx(r) : log[r][i].ev \in evs}

\* The texts the user received over the Notifier, in order.
NotifierTexts(r) ==
    LET ok(e) == e.ev = "send"
        s == SelectSeq(log[r], ok)
    IN  [i \in 1..Len(s) |-> s[i].text]

\* A text of the progress script.
IsScriptText(t) == \E k \in 1..N : WAITING_MESSAGES[k] = t

\* The request is over: the webhook answered and no continuation is left.
Finished(r) == wpc[r] = "responded" /\ bpc[r] \in {"none", "done"}

\* No Notifier send of the request failed.
AllSendsOk(r) == At(r, {"sendfail"}) = {}

\* The task produced its value before any agent_task.cancel().
CompletedBeforeCancel(r) ==
    \E i \in At(r, {"complete"}) : \A j \in At(r, {"cancel"}) : i < j

\* How often the user received the text t (webhook response or Notifier).
Deliveries(r, t) ==
    Cardinality({i \in At(r, {"sync", "send"}) : log[r][i].text = t})

\* The final words: the result, ERROR_MESSAGE, the script's last entry.
IsFinalWord(r, t) ==
    \/ t = ERROR_MESSAGE
    \/ t = Entry(N - 1)
    \/ t /= NoText /\ t = result[r]

\* How many final words the user received.
FinalWords(r) ==
    Cardinality({i \in At(r, {"sync", "send"}) : IsFinalWord(r, log[r][i].text)})

\* The task finished at position i of the log while the continuation was
\* suspended in its wait: the last wait it entered had not timed out.
CompletedInWait(r, i) ==
    /\ log[r][i].ev = "complete"
    /\ \E w \in At(r, {"wait"}) :
          /\ w < i
          /\ \A c \in At(r, {"cadence"}) : c < w \/ c > i

(***************************************************************************)
(* C1.  A result the operation produced before any cancellation was        *)
(* requested reaches the user exactly once when every Notifier send        *)
(* succeeds: it is never delivered twice, and once the request is over it  *)
(* has been delivered.  Stated for the script the program ships.           *)
(***************************************************************************)
C1_ResultDeliveredExactlyOnce ==
    \A r \in Reqs :
        (WAITING_MESSAGES = ShippedScript /\ result[r] /= NoText
            /\ CompletedBeforeCancel(r) /\ AllSendsOk(r))
        => /\ Deliveries(r, result[r]) <= 1
           /\ Finished(r) => Deliveries(r, result[r]) = 1

(***************************************************************************)
(* C2.  A step in which a wait expires (the fast-path deadline or a        *)
(* cadence) leaves the task running and requests no cancellation; the only *)
(* step that calls agent_task.cancel() is the continuation's step after a  *)
(* waiting message, when the cursor reached the end of the script.         *)
(***************************************************************************)
C2_WaitExpiryNeverCancels ==
    [][\A r \in Reqs :
        LET deadline == wpc[r] = "quick_wait" /\ wpc'[r] = "responded"
                           /\ ~quick'[r].delivered
            cadence == bpc[r] = "wait" /\ bpc'[r] = "send_waiting"
            cancels == \/ must_cancel'[r] /= must_cancel[r]
                       \/ At(r, {"cancel"})' /= At(r, {"cancel"})
        IN  /\ (deadline \/ cadence)
                => task[r] = "Running" /\ task'[r] = "Running"
                   /\ ~must_cancel'[r] /\ ~cancels
            /\ cancels
                => bpc[r] = "send_waiting" /\ bpc'[r] = "done"
                   /\ message_index'[r] = N - 1
       ]_vars

\* The deadline and a cadence elapsed, and afterwards the task, never
\* cancelled, finished with its value.
C2_Witness ==
    \E r \in Reqs :
        /\ task[r] = "Completed" /\ ~must_cancel[r]
        /\ \E d \in At(r, {"deadline"}), c \in At(r, {"cadence"}),
              e \in At(r, {"complete"}) : d < c /\ c < e

(***************************************************************************)
(* C3.  When the operation does not complete, the continuation sends the   *)
(* entries 1..N-1 of the script, in order, the last one being the terminal *)
(* entry, and then requests cancellation: with the shipped script of three *)
(* the Notifier texts are entries 1 and 2 and the log ends with the cancel.*)
(***************************************************************************)
C3_ExhaustionPolicy ==
    \A r \in Reqs :
        (WAITING_MESSAGES = ShippedScript /\ bpc[r] = "done"
            /\ At(r, {"complete"}) = {} /\ AllSendsOk(r))
        => /\ NotifierTexts(r) = SubSeq(WAITING_MESSAGES, 2, N)
           /\ At(r, {"cancel"}) /= {}
           /\ \A c \in At(r, {"cancel"}) : \A i \in At(r, {"send"}) : i < c

(***************************************************************************)
(* C4.  After an intermediate waiting message (entry k, 1 <= k <= N-2) the *)
(* continuation does not cancel: the send is never directly followed by    *)
(* agent_task.cancel().                                                    *)
(***************************************************************************)
C4_IntermediateSendKeepsWaiting ==
    \A r \in Reqs :
        \A i \in At(r, {"send", "sendfail"}) :
            (WAITING_MESSAGES = ShippedScript /\ i < Len(log[r])
                /\ \E k \in 1..(N - 2) : log[r][i].text = Entry(k))
            => log[r][i + 1].ev /= "cancel"

(***************************************************************************)
(* C5.  Once a request is over, the user has received exactly one final    *)
(* word: the result, ERROR_MESSAGE or the script's terminal entry.  Stated *)
(* for the shipped script and runs in which no Notifier send fails.        *)
(***************************************************************************)
C5_ExactlyOneFinalWord ==
    \A r \in Reqs :
        (WAITING_MESSAGES = ShippedScript /\ Finished(r) /\ AllSendsOk(r))
        => FinalWords(r) = 1

(***************************************************************************)
(* C6.  In every state the user has received at most one final word (the   *)
(* result, ERROR_MESSAGE or the script's terminal entry) for a request.    *)
(***************************************************************************)
C6_AtMostOneFinalWord ==
    \A r \in Reqs : FinalWords(r) <= 1

\* The first send of the result failed and the continuation delivered
\* ERROR_MESSAGE instead: two attempts, one final word.
C6_Witness ==
    \E r \in Reqs :
        /\ bpc[r] = "done" /\ FinalWords(r) = 1
        /\ \E i \in At(r, {"sendfail"}) : log[r][i].text = result[r]

(***************************************************************************)
(* C7.  If the task finishes while the continuation is suspended in a wait *)
(* the continuation sends nothing of the progress script afterwards: what  *)
(* follows is one send of the result, after a failed send one send of      *)
(* ERROR_MESSAGE, and the continuation is done.                            *)
(***************************************************************************)
C7_EarlyCompletionShortCircuits ==
    \A r \in Reqs :
        \A i \in Idx(r) :
            CompletedInWait(r, i)
            => /\ bpc[r] \in {"wait", "send_result", "send_error", "done"}
               /\ \A j \in At(r, {"send", "sendfail"}) :
                     j > i => ~IsScriptText(log[r][j].text)
               /\ \A j \in At(r, {"wait", "cadence", "cancel"}) : j < i
               /\ bpc[r] = "done"
                     => /\ i < Len(log[r])
                        /\ log[r][i + 1].ev \in {"send", "sendfail"}
                        /\ log[r][i + 1].text = result[r]
                        /\ Cardinality({j \in At(r, {"send", "sendfail"}) :
                                           j > i}) =
                              IF log[r][i + 1].ev = "send" THEN 1 ELSE 2

\* The task finished in the wait that followed a waiting message, and the
\* continuation delivered the result and ended.
C7_Witness ==
    \E r \in Reqs :
        /\ bpc[r] = "done"
        /\ \E i \in Idx(r) :
              /\ CompletedInWait(r, i)
              /\ At(r, {"cadence"}) /= {}
              /\ log[r][Len(log[r])] = Event("send", result[r])

(***************************************************************************)
(* C8.  Once the continuation has taken the exhaustion step (it called     *)
(* agent_task.cancel()), it is done and no Notifier send, successful or    *)
(* not, follows, whatever the task does afterwards.                        *)
(***************************************************************************)
C8_NothingAfterExhaustion ==
    \A r \in Reqs :
        \A c \in At(r, {"cancel"}) :
            /\ bpc[r] = "done"
            /\ \A j \in At(r, {"send", "sendfail", "sync", "wait", "cadence"}) :
                  j < c

\* After the exhaustion step the task still finished with a value.
C8_Witness ==
    \E r \in Reqs :
        \E c \in At(r, {"cancel"}), e \in At(r, {"complete"}) :
            c < e /\ must_cancel[r] /\ task[r] = "Completed"

(***************************************************************************)
(* C9.  try_quick_response starts the task at once and returns one of two  *)
(* shapes: (True, the task's value, None) with the task done and no        *)
(* deadline elapsed, or (False, WAITING_MESSAGES[0], the task) with the    *)
(* deadline elapsed before the task finished; the handle is non-null       *)
(* exactly when delivered is False.                                        *)
(***************************************************************************)
C9_QuickResponseShapes ==
    \A r \in Reqs :
        /\ wpc[r] = "quick_wait" => task[r] /= "none" /\ quick[r] = NoReturn
        /\ wpc[r] = "idle" => task[r] = "none" /\ quick[r] = NoReturn
        /\ wpc[r] = "responded" =>
            /\ quick[r].delivered <=> quick[r].task = NoTask
            /\ quick[r].delivered =>
                  /\ task[r] = "Completed"
                  /\ quick[r].text = result[r] /\ result[r] /= NoText
                  /\ At(r, {"deadline"}) = {}
            /\ ~quick[r].delivered =>
                  /\ quick[r].text = WAITING_MESSAGES[1]
                  /\ quick[r].task = r
                  /\ task[r] /= "none"
                  /\ \E d \in At(r, {"deadline"}) :
                        \A e \in At(r, {"complete", "cancel", "cancelled"}) :
                            d < e
            /\ response[r] = quick[r].text

\* The deadline elapsed: the call returned the first waiting message and the
\* handle of the task, which is still running.
C9_Witness ==
    \E r \in Reqs :
        /\ wpc[r] = "responded" /\ ~quick[r].delivered
        /\ quick[r].task = r /\ task[r] = "Running"

(***************************************************************************)
(* C10.  When the agent call raised, no text the user receives (webhook    *)
(* response or Notifier message) contains the exception's text.            *)
(***************************************************************************)
C10_ErrorTextNeverShown ==
    \A r \in Reqs :
        raised[r] =>
            \A i \in At(r, {"sync", "send"}) :
                \A k \in 1..Len(log[r][i].text) : log[r][i].text[k] /= ErrText

(***************************************************************************)
(* C11.  The webhook never ends by an exception of the operation: once it  *)
(* has answered, the response is the agent's text, the "Error: ..." string *)
(* run_agent made of the exception, or WAITING_MESSAGES[0], given to the   *)
(* user once; and every request that entered the fast path is answered,    *)
(* whether the agent returns, raises or never ends.                        *)
(***************************************************************************)
C11_Answered(r) ==
    /\ wpc[r] /= "raised"
    /\ At(r, {"raise"}) = {}
    /\ wpc[r] = "responded" =>
          /\ response[r] \in {AgentText, ErrorResult(ErrText), Entry(0)}
          /\ Cardinality(At(r, {"sync"})) = 1
          /\ \A i \in At(r, {"sync"}) : log[r][i].text = response[r]
          /\ (raised[r] /\ quick[r].delivered)
                => response[r] = ErrorResult(ErrText)

C11_WebhookAlwaysAnswers ==
    /\ [](\A r \in Reqs : C11_Answered(r))
    /\ \A r \in Reqs : (wpc[r] = "quick_wait") ~> (wpc[r] = "responded")

\* The agent raised within the deadline and the webhook answered with the
\* error string.
C11_Witness ==
    \E r \in Reqs :
        /\ raised[r] /\ wpc[r] = "responded" /\ quick[r].delivered
        /\ response[r] = ErrorResult(ErrText)

\* Positions of the send attempts (returned or raised) of script entries.
WaitingAttempts(r) ==
    {i \in At(r, {"send", "sendfail"}) : IsScriptText(log[r][i].text)}

(***************************************************************************)
(* C12.  The continuation never ends by an exception, whatever sends fail  *)
(* and whether the agent raised; a waiting message whose send failed       *)
(* counts like a sent one: the cursor is always one more than the number   *)
(* of waiting sends attempted, and a failed waiting send never leads to    *)
(* the ERROR_MESSAGE send (only a failed send of the result does).         *)
(***************************************************************************)
C12_ContinuationContainsFailures ==
    \A r \in Reqs :
        /\ bpc[r] /= "raised"
        /\ bpc[r] \notin {"none", "start"}
              => message_index[r] = 1 + Cardinality(WaitingAttempts(r))
        /\ \A i \in WaitingAttempts(r) :
              (log[r][i].ev = "sendfail" /\ bpc[r] /= "send_waiting")
              => \/ bpc[r] /= "send_error"
                 \/ \E j \in At(r, {"sendfail"}) :
                       j > i /\ log[r][j].text = result[r]

\* The agent raised, a waiting send, the send of the result and the send of
\* ERROR_MESSAGE all failed, and the continuation ended normally.
C12_Witness ==
    \E r \in Reqs :
        /\ bpc[r] = "done" /\ raised[r]
        /\ \E i \in WaitingAttempts(r) : log[r][i].ev = "sendfail"
        /\ \E i \in At(r, {"sendfail"}) : log[r][i].text = result[r]
        /\ \E i \in At(r, {"sendfail"}) : log[r][i].text = ERROR_MESSAGE

(***************************************************************************)
(* C13.  A continuation exists for a request exactly when its fast path    *)
(* timed out; it is created once, by the webhook, after the wait of        *)
(* try_quick_response ended.  When the webhook delivered the task's value  *)
(* synchronously nothing is ever sent over the Notifier; otherwise the     *)
(* synchronous response is WAITING_MESSAGES[0] and a final word can only   *)
(* come from the continuation.                                             *)
(***************************************************************************)
C13_HandOffExclusive ==
    \A r \in Reqs :
        /\ bpc[r] /= "none" <=> (wpc[r] = "responded" /\ ~quick[r].delivered)
        /\ Cardinality(At(r, {"spawn"})) = IF bpc[r] = "none" THEN 0 ELSE 1
        /\ Cardinality(At(r, {"start"})) <= 1
        /\ \A i \in At(r, {"spawn"}) :
              /\ \E d \in At(r, {"deadline"}) : d < i
              /\ \A j \in At(r, {"start", "send", "sendfail", "wait",
                                 "cadence", "cancel"}) : i < j
        /\ (wpc[r] = "responded" /\ quick[r].delivered)
              => /\ At(r, {"send", "sendfail", "start", "cancel"}) = {}
                 /\ response[r] = result[r]
        /\ (wpc[r] = "responded" /\ ~quick[r].delivered)
              => \A i \in At(r, {"sync"}) : ~IsFinalWord(r, log[r][i].text)

\* After a timeout the continuation, and only it, delivered the result.
C13_Witness ==
    \E r \in Reqs :
        /\ bpc[r] = "done" /\ ~quick[r].delivered
        /\ response[r] = Entry(0)
        /\ NotifierTexts(r) /= <<>>
        /\ NotifierTexts(r)[Len(NotifierTexts(r))] = result[r]

(***************************************************************************)
(* C14.  With a script of length 2 and an operation that does not          *)
(* complete, the continuation waits one cadence, sends entry 1 (the        *)
(* terminal entry) once and then requests cancellation.                    *)
(***************************************************************************)
C14_ShortestScript ==
    \A r \in Reqs :
        (N = 2 /\ bpc[r] = "done" /\ At(r, {"complete"}) = {}
            /\ AllSendsOk(r))
        => /\ Cardinality(At(r, {"cadence"})) = 1
           /\ NotifierTexts(r) = << Entry(1) >>
           /\ Cardinality(At(r, {"cancel"})) = 1
           /\ \A c \in At(r, {"cancel"}) : \A i \in At(r, {"send"}) : i < c

(***************************************************************************)
(* C15.  Whenever agent_task.cancel() is called, the send of the script's  *)
(* terminal entry WAITING_MESSAGES[N-1] has been made before, and the      *)
(* continuation that called it is done.  Stated for the shipped script.    *)
(***************************************************************************)
C15_TerminalEntryBeforeCancel ==
    \A r \in Reqs :
        WAITING_MESSAGES = ShippedScript
        => \A c \in At(r, {"cancel"}) :
              /\ bpc[r] = "done"
              /\ \E i \in At(r, {"send", "sendfail"}) :
                    i < c /\ log[r][i].text = Entry(N - 1)

\* The texts of the waiting sends attempted, in order.
WaitingTexts(r) ==
    LET att(e) == e.ev \in {"send", "sendfail"} /\ IsScriptText(e.text)
        s == SelectSeq(log[r], att)
    IN  [i \in 1..Len(s) |-> s[i].text]

(***************************************************************************)
(* C16.  Entry 0 of the script is only the synchronous response and never  *)
(* goes over the Notifier; the cursor is 1 when the continuation starts    *)
(* and never decreases; the k-th waiting send is entry k, so the entries   *)
(* go out in increasing order, each at most once; and the continuation is  *)
(* never in a wait (or sending a keep-waiting message) with the cursor on  *)
(* the last entry, nor does a wait follow a send of the last entry.        *)
(***************************************************************************)
C16_Discipline(r) ==
    /\ \A i \in At(r, {"send", "sendfail"}) : log[r][i].text /= Entry(0)
    /\ (wpc[r] = "responded" /\ ~quick[r].delivered)
          => response[r] = Entry(0)
    /\ IF bpc[r] \in {"none", "start"}
       THEN message_index[r] = 0
       ELSE message_index[r] \in 1..(N - 1)
    /\ \A k \in 1..Len(WaitingTexts(r)) : WaitingTexts(r)[k] = Entry(k)
    /\ bpc[r] \in {"wait", "send_waiting"} => message_index[r] < N - 1
    /\ \A i \in WaitingAttempts(r) :
          log[r][i].text = Entry(N - 1)
          => \A w \in At(r, {"wait"}) : w < i

C16_ScriptDiscipline ==
    /\ [](\A r \in Reqs : C16_Discipline(r))
    /\ [][\A r \in Reqs : message_index'[r] >= message_index[r]]_vars

\* With a script of four, entries 1 and 2 went out in this order.
C16_Witness ==
    \E r \in Reqs :
        /\ bpc[r] = "done" /\ N = 4
        /\ WaitingTexts(r) = << Entry(1), Entry(2) >>

\* Positions of all Notifier sends attempted.
Attempts(r) == At(r, {"send", "sendfail"})

(***************************************************************************)
(* C17 as stated.  After a failed Notifier send the continuation neither   *)
(* repeats that text nor sends ERROR_MESSAGE in reaction, and after a      *)
(* failed send of the result it sends nothing at all.                      *)
(***************************************************************************)
C17_NothingInReactionToFailure ==
    \A r \in Reqs :
        \A i \in At(r, {"sendfail"}) :
            \A j \in Attempts(r) :
                j > i => /\ log[r][j].text /= log[r][i].text
                         /\ log[r][j].text /= ERROR_MESSAGE
                         /\ log[r][i].text /= result[r]

(***************************************************************************)
(* C17 as amended.  A failed send is never repeated.  After a failed       *)
(* waiting message the next send is the next scheduled one (a later script *)
(* entry or the result).  After a failed send of the result the            *)
(* continuation makes exactly one more send, of ERROR_MESSAGE, and ends;   *)
(* after a failed send of ERROR_MESSAGE it sends nothing.                  *)
(***************************************************************************)
C17_NoRetryOneErrorNotice ==
    \A r \in Reqs :
        \A i \in At(r, {"sendfail"}) :
            LET later == {j \in Attempts(r) : j > i}
                t == log[r][i].text
            IN  /\ \A j \in later : log[r][j].text /= t
                /\ IsScriptText(t) =>
                      \A j \in later :
                          (\A k \in later : j <= k)
                          => log[r][j].text /= ERROR_MESSAGE
                /\ t = result[r] =>
                      /\ \A j \in later : log[r][j].text = ERROR_MESSAGE
                      /\ Cardinality(later) <= 1
                      /\ bpc[r] = "done" => Cardinality(later) = 1
                      /\ bpc[r] \in {"send_error", "done"}
                /\ t = ERROR_MESSAGE => later = {} /\ bpc[r] = "done"

\* A waiting send failed, later the send of the result failed, and the last
\* thing the continuation did was its one send of ERROR_MESSAGE.
C17_Witness ==
    \E r \in Reqs :
        /\ bpc[r] = "done"
        /\ \E i \in WaitingAttempts(r), j \in At(r, {"sendfail"}) :
              /\ log[r][i].ev = "sendfail" /\ i < j
              /\ log[r][j].text = result[r]
              /\ j + 1 = Len(log[r])
              /\ log[r][j + 1] = Event("send", ERROR_MESSAGE)

\* The task finished at position i of the log while the continuation was
\* awaiting the send of a waiting message: between the cadence timeout and
\* the return of send_message_via_api.
CompletedInSend(r, i) ==
    /\ log[r][i].ev = "complete"
    /\ i > 1 /\ log[r][i - 1].ev = "cadence"

(***************************************************************************)
(* C18.  A task that finishes while the continuation is sending a waiting  *)
(* message, whichever message of the script it is, has its result sent     *)
(* over the Notifier by the time the continuation is done.  Stated for the *)
(* shipped script and runs in which no send fails.                         *)
(***************************************************************************)
C18_ResultAfterBusySend ==
    \A r \in Reqs :
        (WAITING_MESSAGES = ShippedScript /\ bpc[r] = "done"
            /\ AllSendsOk(r) /\ \E i \in Idx(r) : CompletedInSend(r, i))
        => \E k \in 1..Len(NotifierTexts(r)) : NotifierTexts(r)[k] = result[r]

(***************************************************************************)
(* C19.  Under the event loop's fairness every continuation that was       *)
(* created reaches its end, whether the agent returns, raises, or never    *)
(* ends and ignores the cancellation; it enters at most N-1 waits, and     *)
(* once it called agent_task.cancel() it is done without waiting for the   *)
(* task.                                                                   *)
(***************************************************************************)
C19_ContinuationTerminates ==
    /\ [](\A r \in Reqs :
            /\ Cardinality(At(r, {"wait"})) <= N - 1
            /\ At(r, {"cancel"}) /= {} => bpc[r] = "done")
    /\ \A r \in Reqs : (bpc[r] = "start") ~> (bpc[r] = "done")

\* The continuation is done after all its waits timed out, while the task,
\* asked to cancel, is still running.
C19_Witness ==
    \E r \in Reqs :
        /\ bpc[r] = "done" /\ task[r] = "Running" /\ must_cancel[r]
        /\ N = 4 /\ Cardinality(At(r, {"cadence"})) = N - 2

\* The task ended (by the event ev) before the continuation's first step.
EndedBeforeStart(r, ev) ==
    \E e \in At(r, {ev}), b \in At(r, {"start"}) : e < b

(***************************************************************************)
(* C20.  When the task is already done at the continuation's first step,   *)
(* the continuation, once done and with no send failing, has sent exactly  *)
(* one Notifier message and no waiting message: the result, or             *)
(* ERROR_MESSAGE when the agent call had raised; when the task is already  *)
(* cancelled at that step it sends nothing.                                *)
(***************************************************************************)
C20_DoneAtFirstStep ==
    \A r \in Reqs :
        (bpc[r] = "done" /\ AllSendsOk(r))
        => /\ EndedBeforeStart(r, "complete")
                => NotifierTexts(r) =
                      << IF raised[r] THEN ERROR_MESSAGE ELSE result[r] >>
           /\ EndedBeforeStart(r, "cancelled") => Attempts(r) = {}

(***************************************************************************)
(* C21.  Isolation of interleaved requests.  With every request slot in    *)
(* flight: the handle a webhook holds is that of its own task and a        *)
(* request creates and starts at most one continuation; a step of the      *)
(* webhook or of the continuation of one request (a deadline expiry, a     *)
(* cadence, a send, the exhaustion with its cancel) leaves the task of     *)
(* every other request as it was (status, pending cancellation, value);    *)
(* every message the Notifier posted for a request is in the space that    *)
(* request arrived with, and that space never changes once received.       *)
(***************************************************************************)
\* The webhook or the continuation of request r takes the step.
HandlerMoves(r) ==
    \/ wpc'[r] /= wpc[r]
    \/ bpc'[r] /= bpc[r]
    \/ message_index'[r] /= message_index[r]

\* The operation of request q is left as it was.
OperationUntouched(q) ==
    /\ task'[q] = task[q]
    /\ must_cancel'[q] = must_cancel[q]
    /\ result'[q] = result[q]
    /\ raised'[q] = raised[q]
    /\ answered'[q] = answered[q]

C21_RequestsIsolated ==
    [][\A r \in Reqs :
        /\ quick'[r].task \in {NoTask, r}
        /\ Cardinality(At(r, {"spawn"})) <= 1
        /\ Cardinality(At(r, {"start"})) <= 1
        /\ HandlerMoves(r) => \A q \in Reqs \ {r} : OperationUntouched(q)
        /\ \A m \in chat' : m.space = space_name'[m.of]
        /\ space_name[r] /= NoSpace => space_name'[r] = space_name[r]
      ]_vars

\* Two requests of one sender in different spaces: the continuation of one
\* posted its waiting message, ran out of script and cancelled its task,
\* while the task of the other is still running, uncancelled, with its own
\* continuation waiting on it.
C21_Witness ==
    \E r \in Reqs, q \in Reqs :
        /\ r /= q
        /\ user_email[r] = user_email[q]
        /\ space_name[r] /= space_name[q]
        /\ At(r, {"cancel"}) /= {}
        /\ task[r] = "Cancelled"
        /\ \E m \in chat : m.of = r /\ m.space = space_name[r]
        /\ task[q] = "Running"
        /\ ~must_cancel[q]
        /\ bpc[q] = "wait"

(***************************************************************************)
(* Reading the history store.                                              *)
(***************************************************************************)
\* The request whose run_agent stored the entry e (the call made at the
\* entry's timestamp).
OwnerOf(e) == calls[e.timestamp].of

\* The positions of `calls` at which run_agent of request r added an entry.
CallsOf(r) == {i \in 1..Len(calls) : calls[i].of = r}

\* The entry at position i of file f was stored for request r with the role.
StoredFor(f, i, r, role) ==
    /\ i \in 1..Len(files[f])
    /\ OwnerOf(files[f][i]) = r
    /\ files[f][i].role = role

(***************************************************************************)
(* C22.  Under any interleaving of the requests, those of one sender       *)
(* included: a request whose agent call has not returned a response (it is *)
(* still running, failed, or was cancelled before) has added nothing to    *)
(* any history; a request whose agent call returned made exactly two       *)
(* add_to_history calls, one right after the other, for its own sender,    *)
(* the user message first and the assistant response second; and in the    *)
(* stored history of that sender the two entries of a request lie next to  *)
(* each other in that order, no entry of another request between them.     *)
(***************************************************************************)
C22_PairAppendedTogether ==
    \A r \in Reqs :
        /\ ~answered[r] =>
              /\ CallsOf(r) = {}
              /\ \A f \in FileNames : \A i \in 1..Len(files[f]) :
                    OwnerOf(files[f][i]) /= r
        /\ answered[r] =>
              \E i \in 1..Len(calls) :
                  /\ CallsOf(r) = {i, i + 1}
                  /\ calls[i] = Call(user_email[r], "user", UserText, r)
                  /\ calls[i + 1] =
                        Call(user_email[r], "assistant", AgentText, r)
        /\ \A f \in FileNames : \A i \in 1..Len(files[f]) :
              OwnerOf(files[f][i]) = r =>
                  /\ f = safe_name(user_email[r])
                  /\ \/ files[f][i].role = "user"
                        /\ StoredFor(f, i + 1, r, "assistant")
                     \/ files[f][i].role = "assistant"
                        /\ StoredFor(f, i - 1, r, "user")

\* Two requests of one sender ran at once: the agent answered both, the
\* history of the sender holds the pair of one followed by the pair of the
\* other, and both tasks are still running.
C22_Witness ==
    \E r \in Reqs, q \in Reqs :
        /\ r /= q
        /\ user_email[r] = user_email[q]
        /\ task[r] = "Running" /\ task[q] = "Running"
        /\ answered[r] /\ answered[q]
        /\ LET f == safe_name(user_email[r])
           IN  /\ Len(files[f]) = 4
               /\ StoredFor(f, 1, q, "user")
               /\ StoredFor(f, 2, q, "assistant")
               /\ StoredFor(f, 3, r, "user")
               /\ StoredFor(f, 4, r, "assistant")

\* The entries add_to_history was asked to store under the addresses in
\* who, in the order of the calls.
RECURSIVE AddedUpTo(_, _)
AddedUpTo(who, n) ==
    IF n = 0 THEN <<>>
    ELSE IF calls[n].user_email \in who
         THEN Append(AddedUpTo(who, n - 1),
                     HistoryEntry(calls[n].role, calls[n].content, n))
         ELSE AddedUpTo(who, n - 1)

AddedFor(who) == AddedUpTo(who, Len(calls))

(***************************************************************************)
(* C23.  After any sequence of add_to_history calls, the stored history of *)
(* every sender holds at most MAX_MESSAGES entries, and they are exactly   *)
(* the last entries added for that sender, in the order they were added.   *)
(***************************************************************************)
C23_HistoryIsRecentTail ==
    \A email \in Emails :
        /\ Len(get_history(files, email)) <= MAX_MESSAGES
        /\ get_history(files, email) = LastN(AddedFor({email}), MAX_MESSAGES)

\* What the store does keep: each file holds the last MAX_MESSAGES entries
\* added under any of the addresses that are sanitised to its name.
StoreKeepsRecentPerFile ==
    \A f \in FileNames :
        /\ Len(files[f]) <= MAX_MESSAGES
        /\ files[f] =
              LastN(AddedFor({e \in Emails : safe_name(e) = f}), MAX_MESSAGES)
====
